---- MODULE Spec2Model ----
(***************************************************************************)
(* Model of the "Distribuidor de Senhas" ticket issuer (event_utils.py).   *)
(*                                                                         *)
(* Text is modelled as a sequence of one-character strings, so that the    *)
(* conversions of the program (normalisation, phone formatting, the A1     *)
(* range written by the store and the regular expressions that read it     *)
(* back) are computed character by character.                              *)
(***************************************************************************)
EXTENDS Integers, Sequences, FiniteSets, TLC

(***************************************************************************)
(* Characters and Python's str helpers                                     *)
(***************************************************************************)
Digits == <<"0", "1", "2", "3", "4", "5", "6", "7", "8", "9">>

UpperLetters == <<"A", "B", "C", "D", "E", "F", "G", "H", "I", "J", "K", "L", "M",
                  "N", "O", "P", "Q", "R", "S", "T", "U", "V", "W", "X", "Y", "Z">>

LowerLetters == <<"a", "b", "c", "d", "e", "f", "g", "h", "i", "j", "k", "l", "m",
                  "n", "o", "p", "q", "r", "s", "t", "u", "v", "w", "x", "y", "z">>

\* Accented letters of the model's alphabet and their NFKD base letter.
Accented == <<"Á", "á", "Ã", "ã", "É", "é", "Í", "í">>

AccentBase == <<"A", "a", "A", "a", "E", "e", "I", "i">>

Range(s) == {s[i] : i \in 1..Len(s)}

IndexOf(seq, c) == CHOOSE i \in 1..Len(seq) : seq[i] = c

IsDigit(c) == c \in Range(Digits)

IsSpace(c) == c = " "

\* unicodedata.normalize("NFKD", ch) with the combining marks dropped.
Unaccent(c) == IF c \in Range(Accented) THEN AccentBase[IndexOf(Accented, c)] ELSE c

\* str.lower() / str.upper() of one character (after Unaccent for lower).
LowerChar(c) ==
    IF c \in Range(UpperLetters) THEN LowerLetters[IndexOf(UpperLetters, c)]
    ELSE IF c \in Range(Accented) /\ IndexOf(Accented, c) % 2 = 1
         THEN Accented[IndexOf(Accented, c) + 1]
    ELSE c

UpperChar(c) ==
    IF c \in Range(LowerLetters) THEN UpperLetters[IndexOf(LowerLetters, c)]
    ELSE IF c \in Range(Accented) /\ IndexOf(Accented, c) % 2 = 0
         THEN Accented[IndexOf(Accented, c) - 1]
    ELSE c

UnaccentText(s) == [i \in 1..Len(s) |-> Unaccent(s[i])]

LowerText(s) == [i \in 1..Len(s) |-> LowerChar(s[i])]

UpperText(s) == [i \in 1..Len(s) |-> UpperChar(s[i])]

\* str.strip()
RECURSIVE LStrip(_)
LStrip(s) == IF s # <<>> /\ IsSpace(Head(s)) THEN LStrip(Tail(s)) ELSE s

RECURSIVE RStrip(_)
RStrip(s) ==
    IF s # <<>> /\ IsSpace(s[Len(s)]) THEN RStrip(SubSeq(s, 1, Len(s) - 1)) ELSE s

Strip(s) == RStrip(LStrip(s))

\* re.sub(r"\D", "", s)
OnlyDigits(s) == SelectSeq(s, IsDigit)

\* str(n) for n >= 0
RECURSIVE IntToStr(_)
IntToStr(n) ==
    IF n < 10 THEN <<Digits[n + 1]>>
    ELSE IntToStr(n \div 10) \o <<Digits[(n % 10) + 1]>>

\* int(s) for a non-empty string of digits
RECURSIVE StrToInt(_)
StrToInt(s) ==
    IF s = <<>> THEN 0
    ELSE 10 * StrToInt(SubSeq(s, 1, Len(s) - 1)) + (IndexOf(Digits, s[Len(s)]) - 1)

Max(a, b) == IF a >= b THEN a ELSE b

\* Python's None in place of a cell's text (an absent cell).
None == <<"None">>

\* Python's None in place of a positive int (Optional[int]).
NoInt == 0

(***************************************************************************)
(* Normalisers (event_utils.py, lines 75-140)                              *)
(***************************************************************************)
_normalize(s) == LowerText(Strip(UnaccentText(s)))

\* format_phone_number: the formatted text, or the ValueError it raises.
PhoneError == <<"ValueError">>

\* A normaliser that keeps the nine local digits without the area code: its
\* output no longer normalises to eleven digits.
format_phone_number_Local(telefone) ==
    LET t == Strip(telefone)
        d0 == OnlyDigits(t)
        d1 == IF Len(d0) >= 2 /\ SubSeq(d0, 1, 2) = <<"5", "5">> /\ Len(d0) > 11
              THEN SubSeq(d0, 3, Len(d0)) ELSE d0
        numero_local == SubSeq(d1, Len(d1) - 8, Len(d1))
    IN  IF t = <<>> THEN PhoneError
        ELSE IF d0 = <<>> THEN PhoneError
        ELSE IF Len(d1) # 11 THEN PhoneError
        ELSE SubSeq(numero_local, 1, 5) \o <<"-">> \o SubSeq(numero_local, 6, 9)

\* A normaliser that never drops the country prefix.
format_phone_number_KeepPrefix(tel) ==
    LET t == Strip(tel)
        d0 == OnlyDigits(t)
        numero_local == SubSeq(d0, Len(d0) - 8, Len(d0))
    IN  IF t = <<>> THEN PhoneError
        ELSE IF d0 = <<>> THEN PhoneError
        ELSE IF Len(d0) # 11 THEN PhoneError
        ELSE <<"(", "9", "2", ")", " ">> \o SubSeq(numero_local, 1, 5)
             \o <<"-">> \o SubSeq(numero_local, 6, 9)

format_phone_number(telefone) ==
    LET t == Strip(telefone)
        d0 == OnlyDigits(t)
        d1 == IF Len(d0) >= 2 /\ SubSeq(d0, 1, 2) = <<"5", "5">> /\ Len(d0) > 11
              THEN SubSeq(d0, 3, Len(d0)) ELSE d0
        numero_local == SubSeq(d1, Len(d1) - 8, Len(d1))
    IN  IF t = <<>> THEN PhoneError
        ELSE IF d0 = <<>> THEN PhoneError
        ELSE IF Len(d1) # 11 THEN PhoneError
        ELSE <<"(", "9", "2", ")", " ">> \o SubSeq(numero_local, 1, 5)
             \o <<"-">> \o SubSeq(numero_local, 6, 9)

format_name_upper(nome) == UpperText(Strip(nome))

TruthyTokens ==
    { <<"s", "i", "m">>, <<"s">>, <<"t", "r", "u", "e">>, <<"1">>, <<"y">>,
      <<"y", "e", "s">>, <<"a", "t", "i", "v", "o">>, <<"a", "t", "i", "v", "a">>,
      <<"o", "n">>, <<"o", "k">> }

\* A truthiness test that compares the trimmed text as it is written.
_truthy_Exact(v) == Strip(v) \in TruthyTokens

_truthy(v) == _normalize(v) \in TruthyTokens

\* _parse_positive_int of a cell (text) or of None: the int, or NoInt for None.
_parse_positive_int(value) ==
    IF value = None THEN NoInt
    ELSE LET s == OnlyDigits(value)
         IN  IF s = <<>> THEN NoInt
             ELSE IF StrToInt(s) > 0 THEN StrToInt(s) ELSE NoInt

(***************************************************************************)
(* Sheet layout helpers (lines 35-60)                                      *)
(***************************************************************************)
HEADERS ==
    << <<"S", "e", "n", "h", "a">>,
       <<"N", "o", "m", "e">>,
       <<"T", "e", "l", "e", "f", "o", "n", "e">>,
       <<"R", "e", "d", "e", " ", "S", "o", "c", "i", "a", "l">>,
       <<"E", "-", "m", "a", "i", "l">>,
       <<"B", "a", "i", "r", "r", "o">>,
       <<"D", "a", "t", "a", " ", "e", " ", "H", "o", "r", "a", " ", "d", "e", " ", "R", "e", "g", "i", "s", "t", "r", "o">>,
       <<"D", "a", "t", "a", " ", "e", " ", "H", "o", "r", "a", " ", "d", "e", " ", "A", "t", "e", "n", "d", "i", "m", "e", "n", "t", "o">> >>

\* _column_letter(idx) for a zero-based index.
RECURSIVE ColumnLetters(_)
ColumnLetters(n) ==
    IF n <= 0 THEN <<>>
    ELSE ColumnLetters((n - 1) \div 26) \o <<UpperLetters[((n - 1) % 26) + 1]>>

_column_letter(idx) == ColumnLetters(idx + 1)

_header_range(title) ==
    title \o <<"!", "A", "1", ":">> \o _column_letter(Len(HEADERS) - 1) \o <<"1">>

(***************************************************************************)
(* Area Resolver (lines 206-213, 261-311)                                  *)
(* Column indexes are one-based here; 0 stands for "not found" (None).     *)
(***************************************************************************)
AreaCandidates ==
    << <<"Á", "r", "e", "a">>,
       <<"A", "r", "e", "a">>,
       <<"S", "e", "t", "o", "r">>,
       <<"M", "e", "s", "a">>,
       <<"Á", "r", "e", "a", "/", "S", "e", "t", "o", "r">> >>

AbaCandidates ==
    << <<"A", "b", "a">>,
       <<"S", "h", "e", "e", "t">>,
       <<"A", "b", "a", "D", "e", "s", "t", "i", "n", "o">>,
       <<"A", "b", "a", " ", "D", "e", "s", "t", "i", "n", "o">>,
       <<"D", "e", "s", "t", "i", "n", "o">>,
       <<"G", "u", "i", "a">>,
       <<"T", "a", "b">> >>

AtivaCandidates ==
    << <<"A", "t", "i", "v", "a">>,
       <<"A", "t", "i", "v", "o">>,
       <<"S", "t", "a", "t", "u", "s">>,
       <<"H", "a", "b", "i", "l", "i", "t", "a", "d", "a">>,
       <<"D", "i", "s", "p", "o", "n", "í", "v", "e", "l">> >>

MaxCandidates ==
    << <<"Q", "u", "a", "n", "t", "i", "d", "a", "d", "e", " ", "m", "á", "x", "i", "m", "a", " ", "d", "e", " ", "s", "e", "n", "h", "a", "s">>,
       <<"Q", "t", "d", " ", "m", "á", "x", "i", "m", "a">>,
       <<"Q", "t", "d", " ", "S", "e", "n", "h", "a", "s">>,
       <<"L", "i", "m", "i", "t", "e">> >>

\* First column of header_row equal (after _normalize) to the given text, or 0.
FirstColumn(header_row, want_n) ==
    LET hits == {i \in 1..Len(header_row) : _normalize(header_row[i]) = want_n}
    IN  IF hits = {} THEN 0 ELSE CHOOSE i \in hits : \A j \in hits : i <= j

RECURSIVE _find_col_indexes(_, _)
_find_col_indexes(header_row, candidates) ==
    IF candidates = <<>> THEN 0
    ELSE LET idx == FirstColumn(header_row, _normalize(Head(candidates)))
         IN  IF idx # 0 THEN idx ELSE _find_col_indexes(header_row, Tail(candidates))

\* One data row of the table: the area record to append, or <<>> when skipped.
AreaOfRow(row, area_idx, aba_idx, ativa_idx, max_idx) ==
    LET area == Strip(IF area_idx <= Len(row) THEN row[area_idx] ELSE <<>>)
        aba == Strip(IF aba_idx # 0 /\ aba_idx <= Len(row) THEN row[aba_idx] ELSE area)
        sheet_title == IF aba # <<>> THEN aba ELSE area
        ativa_val == IF ativa_idx # 0 /\ ativa_idx <= Len(row)
                     THEN row[ativa_idx] ELSE <<"S", "i", "m">>
        max_val == IF max_idx # 0 /\ max_idx <= Len(row) THEN row[max_idx] ELSE None
    IN  IF area = <<>> THEN <<>>
        ELSE IF _truthy(ativa_val)
        THEN << [area |-> area, sheet |-> sheet_title, ativa |-> TRUE,
                 max_senhas |-> _parse_positive_int(max_val)] >>
        ELSE <<>>

RECURSIVE AreasOfRows(_, _, _, _, _)
AreasOfRows(rows, area_idx, aba_idx, ativa_idx, max_idx) ==
    IF rows = <<>> THEN <<>>
    ELSE AreaOfRow(Head(rows), area_idx, aba_idx, ativa_idx, max_idx)
         \o AreasOfRows(Tail(rows), area_idx, aba_idx, ativa_idx, max_idx)

\* read_active_areas on the rows of the configuration table: error is TRUE when
\* it raises RuntimeError (no area column), else areas is the list returned.
read_active_areas(rows) ==
    IF rows = <<>> THEN [error |-> FALSE, areas |-> <<>>]
    ELSE LET header == rows[1]
             area_idx == _find_col_indexes(header, AreaCandidates)
             aba_idx == _find_col_indexes(header, AbaCandidates)
             ativa_idx == _find_col_indexes(header, AtivaCandidates)
             max_idx == _find_col_indexes(header, MaxCandidates)
         IN  IF area_idx = 0 THEN [error |-> TRUE, areas |-> <<>>]
             ELSE [error |-> FALSE,
                   areas |-> AreasOfRows(Tail(rows), area_idx, aba_idx,
                                         ativa_idx, max_idx)]

(***************************************************************************)
(* The row position in the store's acknowledgement (lines 358-366)         *)
(***************************************************************************)
\* Last index of the run of digits that starts at j.
RECURSIVE DigitRunEnd(_, _)
DigitRunEnd(s, j) ==
    IF j < Len(s) /\ IsDigit(s[j + 1]) THEN DigitRunEnd(s, j + 1) ELSE j

\* Matches <<i, j>> of "!.*?(\d+)" whose group starts at j and is followed by
\* ":" (toEnd = FALSE) or by the end of the text (toEnd = TRUE).
RangeMatches(s, toEnd) ==
    { m \in (1..Len(s)) \X (1..Len(s)) :
        /\ s[m[1]] = "!"
        /\ m[1] < m[2]
        /\ IsDigit(s[m[2]])
        /\ LET k == DigitRunEnd(s, m[2])
           IN  IF toEnd THEN k = Len(s) ELSE k < Len(s) /\ s[k + 1] = ":" }

\* re.search: leftmost "!", then the shortest ".*?"; the text of group 1.
FirstMatch(s, ms) ==
    LET m == CHOOSE x \in ms : \A y \in ms :
                 x[1] < y[1] \/ (x[1] = y[1] /\ x[2] <= y[2])
    IN  SubSeq(s, m[2], DigitRunEnd(s, m[2]))

\* A reading of the acknowledgement that makes up row 1 when no position is
\* found.
ParseUpdatedRange_Fabricate(updated_range) ==
    IF RangeMatches(updated_range, FALSE) # {}
    THEN FirstMatch(updated_range, RangeMatches(updated_range, FALSE))
    ELSE IF RangeMatches(updated_range, TRUE) # {}
    THEN FirstMatch(updated_range, RangeMatches(updated_range, TRUE))
    ELSE <<"1">>

\* group(1) of re.search(r"!.*?(\d+):", s) or re.search(r"!.*?(\d+)$", s);
\* <<>> when neither matches.
ParseUpdatedRange(updated_range) ==
    IF RangeMatches(updated_range, FALSE) # {}
    THEN FirstMatch(updated_range, RangeMatches(updated_range, FALSE))
    ELSE IF RangeMatches(updated_range, TRUE) # {}
    THEN FirstMatch(updated_range, RangeMatches(updated_range, TRUE))
    ELSE <<>>

\* A number taken to be the row itself, the header row forgotten.
SenhaOfRow_NoHeader(row_idx_int) == Max(1, row_idx_int)

\* senha_num = max(1, row_idx_int - 1)
SenhaOfRow(row_idx_int) == Max(1, row_idx_int - 1)

\* A rewrite that counts rows from zero.
NumberCellRow_ZeroBased(row_idx_int) == Max(1, row_idx_int - 1)

\* The row of the cell rewritten with the number: range "<title>!A{row_idx_int}".
NumberCellRow(row_idx_int) == row_idx_int

(***************************************************************************)
(* Bounds and inputs of the model                                          *)
(***************************************************************************)
\* Submissions started in one run, and areas requested by one submission.
MaxSubmits == 2

MaxAreas == 2

Procs == {"u1", "u2"}

AreaA == <<"A">>

AreaB == <<"B">>

AreaC == <<"C">>

SheetM1 == <<"M", "1">>

RequestAreas == {AreaA, AreaB, AreaC}

\* Every sheet title a submission of the model can address.
SheetTitles == {AreaA, SheetM1, AreaC}

\* The "Nomes" table: A (limit 1), B (kept in sheet M1, short row: no flag, no
\* limit), C (inactive).
NomesGood ==
    << << <<"Á", "r", "e", "a">>, <<"A", "b", "a">>, <<"L", "i", "m", "i", "t", "e">>, <<"A", "t", "i", "v", "a">> >>,
       << <<"A">>, <<>>, <<"1">>, <<"S", "i", "m">> >>,
       << <<"B">>, <<"M", "1">> >>,
       << <<"C">>, <<>>, <<"2">>, <<"N", "a", "o">> >> >>

\* A "Nomes" table without an area-name column.
NomesNoArea ==
    << << <<"N", "o", "m", "e">>, <<"A", "t", "i", "v", "a">> >>,
       << <<"A">>, <<"S", "i", "m">> >> >>

NomesTables == {NomesGood, NomesNoArea}

NameSamples == { <<" ">>, <<" ", "a", "n", "a", " ">> }

PhoneSamples ==
    { <<"+", "5", "5", " ", "(", "9", "2", ")", " ", "9", "8", "1", "2", "3", "-", "1", "2", "3", "4">>,
      <<"9", "2", "9", "8", "1", "2", "3", "1", "2", "3", "4">>,
      <<"9", "2", "9", "8", "1", "2", "3">> }

Bairro == <<"C", "e", "n", "t", "r", "o">>

RedeSocial == <<"@", "a", "n", "a">>

Email == <<>>

\* now_str(): the clock is not modelled, every registration carries this text.
now_str == <<"3", "0", "/", "1", "0", "/", "2", "0", "2", "6", " ", "0", "9", ":", "0", "0", ":", "0", "0">>

RECURSIVE SeqsUpTo(_, _)
SeqsUpTo(S, n) ==
    IF n = 0 THEN {<<>>}
    ELSE SeqsUpTo(S, n - 1) \cup
         {Append(s, x) : s \in {q \in SeqsUpTo(S, n - 1) : Len(q) = n - 1}, x \in S}

(***************************************************************************)
(* The row store (Google Sheets values API), as the calls of lines         *)
(* 231-258 and 350-374 use it.  A sheet is its rows; a row is its cells.    *)
(***************************************************************************)
NoSheet == [exists |-> FALSE, rows |-> <<>>]

BlankSheet == [exists |-> TRUE, rows |-> <<>>]

RowBlank(row) == \A c \in 1..Len(row) : row[c] = <<>>

\* values().get(range="<title>!1:1") gave no value in row 1.
Row1Blank(rows) == rows = <<>> \/ RowBlank(rows[1])

\* Rows 1..n of the grid, blank rows added where the grid is shorter.
PadRows(rows, n) == [r \in 1..Max(n, Len(rows)) |-> IF r <= Len(rows) THEN rows[r] ELSE <<>>]

\* values().update of one row starting at column A: the cells given are written,
\* cells to their right are kept.
UpdateRow(rows, r, values) ==
    LET old == PadRows(rows, r)
    IN  [old EXCEPT ![r] = [c \in 1..Max(Len(values), Len(old[r])) |->
                               IF c <= Len(values) THEN values[c] ELSE old[r][c]]]

\* values().append with insertDataOption="INSERT_ROWS": a row is inserted at
\* position r for the values; the rows that were at r and below move down.
InsertRow(rows, r, values) ==
    LET old == PadRows(rows, r - 1)
    IN  SubSeq(old, 1, r - 1) \o <<values>> \o SubSeq(old, r, Len(old))

\* An append that lands on the last data row instead of under it.
AppendRowIndex_Overwrite(rows) == {Max(2, Len(rows))}

\* values().append(range="<title>!A1"): the rows the new row may land on.  The
\* service looks for the table at A1 and writes under it.  A sheet without
\* values is written at row 1.  When A1 holds a value the table starts there
\* and the row lands under the last row.  When A1 is empty and other cells are
\* not, where the service puts the row is not decided by the source: it is
\* row 1 (A1 is in no table) or the row under the last one.
AppendRowIndex(rows) ==
    IF \A r \in 1..Len(rows) : RowBlank(rows[r]) THEN {1}
    ELSE IF rows[1] # <<>> /\ rows[1][1] # <<>> THEN {Len(rows) + 1}
    ELSE {1, Len(rows) + 1}

\* The "updatedRange" of the append's acknowledgement, in A1 notation.
UpdatedRange(title, r, ncols) ==
    title \o <<"!", "A">> \o IntToStr(r) \o <<":">>
          \o _column_letter(ncols - 1) \o IntToStr(r)

(***************************************************************************)
(* Document renderer (lines 428-516): a document is its pages, a page the  *)
(* fields printed on it.                                                   *)
(***************************************************************************)
_render_ticket_page(data) ==
    [area |-> Strip(data.area),
     senha |-> Strip(data.senha),
     nome |-> format_name_upper(data.nome),
     tel |-> format_phone_number(data.telefone)]

\* A document whose pages come in the reverse of the tickets' order.
generate_tickets_pdf_Reversed(tickets) ==
    LET pages == [k \in 1..Len(tickets) |->
                     _render_ticket_page(tickets[Len(tickets) + 1 - k])]
    IN  [error |-> \E k \in 1..Len(pages) : pages[k].tel = PhoneError,
         pages |-> pages]

\* error: some page raised ValueError (format_phone_number); else the pages.
generate_tickets_pdf(tickets) ==
    LET pages == [k \in 1..Len(tickets) |-> _render_ticket_page(tickets[k])]
    IN  [error |-> \E k \in 1..Len(pages) : pages[k].tel = PhoneError,
         pages |-> pages]

(***************************************************************************)
(* State                                                                   *)
(***************************************************************************)
VARIABLES
    nomes,      \* rows of the configuration table "Nomes"
    creds,      \* whether Google credentials are configured
    sheets,     \* the area sheets of the spreadsheet, by title
    pc,         \* where each caller's submission stands
    loc,        \* the local variables of each running submit_tickets
    out,        \* what the finished call returned or raised
    issued,     \* history: the numbers returned for each sheet, in order
    nsub,       \* history: submissions started
    tabela,     \* a configuration table handed to the Area Resolver on its own
    resolved,   \* what the Area Resolver returned for it, once it has run
    telefone_txt, \* a phone text handed to format_phone_number on its own
    formatted   \* what each call of format_phone_number on it gave, in order

vars == <<nomes, creds, sheets, pc, loc, out, issued, nsub, tabela, resolved,
         telefone_txt, formatted>>

\* What no step of a submission changes.
fixed == <<nomes, creds, tabela, resolved, telefone_txt, formatted>>

\* The resolver has not run on tabela.
NotResolved == [ran |-> FALSE, error |-> FALSE, areas |-> <<>>]

NoLoc ==
    [entry |-> "", areas |-> <<>>, i |-> 0, nome |-> <<>>, tel |-> <<>>,
     info |-> <<>>, sheet |-> <<>>, row_idx |-> 0, senha |-> 0,
     resultados |-> <<>>, excedidas |-> <<>>, mutated |-> FALSE, placed |-> 0]

\* kind, error, resultados, has_pdf/pdf, excedidas and senha are what the caller
\* gets; entry and areas are what it asked; mutated and registered are history:
\* whether the call changed the store, and the registrations it had made.
NoOut ==
    [kind |-> "none", error |-> "", resultados |-> <<>>, has_pdf |-> FALSE,
     pdf |-> <<>>, excedidas |-> <<>>, senha |-> 0,
     entry |-> "", areas |-> <<>>, mutated |-> FALSE, registered |-> <<>>]

\* The outcome of a call that raises e.
Raised(l, e) ==
    [NoOut EXCEPT !.kind = "error", !.error = e, !.entry = l.entry,
                  !.areas = l.areas, !.mutated = l.mutated,
                  !.registered = l.resultados]

ValidationErrors == {"ValueError: areas", "ValueError: nome", "ValueError: telefone"}

ConfigurationErrors == {"RuntimeError: credentials", "RuntimeError: area column"}

PersistenceErrors == {"RuntimeError: read Nomes", "HttpError", "RuntimeError: updatedRange"}

QuotaError == "ValueError: limite"

Raise(p, l, e) ==
    /\ pc' = [pc EXCEPT ![p] = "done"]
    /\ out' = [out EXCEPT ![p] = Raised(l, e)]
    /\ loc' = [loc EXCEPT ![p] = NoLoc]

Init ==
    /\ nomes \in NomesTables
    /\ creds \in BOOLEAN
    /\ \E blank \in {{}, {AreaA}} :
          sheets = [t \in SheetTitles |-> IF t \in blank THEN BlankSheet ELSE NoSheet]
    /\ pc = [p \in Procs |-> "idle"]
    /\ loc = [p \in Procs |-> NoLoc]
    /\ out = [p \in Procs |-> NoOut]
    /\ issued = [t \in SheetTitles |-> <<>>]
    /\ nsub = 0
    /\ tabela = <<>>
    /\ resolved = NotResolved
    /\ telefone_txt = <<>>
    /\ formatted = <<>>

(***************************************************************************)
(* submit_tickets / submit_ticket (lines 519-616)                          *)
(***************************************************************************)
\* dict.get on {a["area"]: a[field]}: the last entry of that area wins.
MapHas(info, area) == \E k \in 1..Len(info) : info[k].area = area

MapLast(info, area) ==
    info[CHOOSE k \in 1..Len(info) :
            /\ info[k].area = area
            /\ \A j \in 1..Len(info) : info[j].area = area => j <= k]

\* map_area_sheet.get(area) or area
SheetOfArea(info, area) ==
    IF MapHas(info, area) /\ MapLast(info, area).sheet # <<>>
    THEN MapLast(info, area).sheet ELSE area

\* map_area_limit.get(area)
LimitOfArea(info, area) ==
    IF MapHas(info, area) THEN MapLast(info, area).max_senhas ELSE NoInt

\* The row appended for a registration (lines 556-565).
TicketRow(nome_fmt, telefone_fmt) ==
    << <<>>, nome_fmt, telefone_fmt, RedeSocial, Email, Bairro, now_str, <<>> >>

\* The values the normalisers and the Area Resolver give on the model's inputs,
\* computed once.
ActiveAreasOf == [rows \in NomesTables |-> read_active_areas(rows)]

NameOf == [nome \in NameSamples |-> format_name_upper(nome)]

PhoneOf == [telefone \in PhoneSamples |-> format_phone_number(telefone)]

\* Lines 529-551: the checks made before the first area is processed; the
\* first one that fails is the error raised.
SubmitError(areas, nome, telefone, read_ok) ==
    IF areas = <<>> THEN "ValueError: areas"
    ELSE IF ~creds THEN "RuntimeError: credentials"
    ELSE IF ~read_ok THEN "RuntimeError: read Nomes"
    ELSE IF ActiveAreasOf[nomes].error THEN "RuntimeError: area column"
    ELSE IF NameOf[nome] = <<>> THEN "ValueError: nome"
    ELSE IF PhoneOf[telefone] = PhoneError THEN "ValueError: telefone"
    ELSE ""

Submit(p, entry, areas, nome, telefone, read_ok) ==
    /\ pc[p] = "idle"
    /\ nsub < MaxSubmits
    /\ entry = "submit_ticket" => Len(areas) = 1
    /\ nsub' = nsub + 1
    /\ UNCHANGED <<fixed, sheets, issued>>
    /\ LET e == SubmitError(areas, nome, telefone, read_ok)
       IN  IF e # "" THEN Raise(p, [NoLoc EXCEPT !.entry = entry, !.areas = areas], e)
           ELSE /\ pc' = [pc EXCEPT ![p] = "meta"]
                /\ loc' = [loc EXCEPT ![p] =
                      [NoLoc EXCEPT !.entry = entry, !.areas = areas, !.i = 1,
                                    !.nome = NameOf[nome],
                                    !.tel = PhoneOf[telefone],
                                    !.info = ActiveAreasOf[nomes].areas,
                                    !.sheet = SheetOfArea(ActiveAreasOf[nomes].areas,
                                                          areas[1])]]
                /\ out' = out

(***************************************************************************)
(* ensure_area_sheet (lines 229-258), one action per call to the store     *)
(***************************************************************************)
\* _get_sheet_metadata and _sheet_exists
EnsureMeta(p) ==
    /\ pc[p] = "meta"
    /\ pc' = [pc EXCEPT ![p] = IF sheets[loc[p].sheet].exists THEN "row1" ELSE "addSheet"]
    /\ UNCHANGED <<fixed, sheets, loc, out, issued, nsub>>

\* batchUpdate addSheet: the store refuses a title that exists by now.
AddSheet(p) ==
    /\ pc[p] = "addSheet"
    /\ UNCHANGED <<fixed, issued, nsub>>
    /\ IF sheets[loc[p].sheet].exists
       THEN Raise(p, loc[p], "HttpError") /\ sheets' = sheets
       ELSE /\ sheets' = [sheets EXCEPT ![loc[p].sheet] = BlankSheet]
            /\ pc' = [pc EXCEPT ![p] = "header"]
            /\ loc' = [loc EXCEPT ![p].mutated = TRUE]
            /\ out' = out

\* values().get of row 1 of a sheet that exists
ReadRow1(p) ==
    /\ pc[p] = "row1"
    /\ pc' = [pc EXCEPT ![p] = IF Row1Blank(sheets[loc[p].sheet].rows)
                               THEN "header" ELSE "append"]
    /\ UNCHANGED <<fixed, sheets, loc, out, issued, nsub>>

\* values().update of _header_range(title) with HEADERS
WriteHeader(p) ==
    /\ pc[p] = "header"
    /\ sheets' = [sheets EXCEPT ![loc[p].sheet].rows = UpdateRow(@, 1, HEADERS)]
    /\ pc' = [pc EXCEPT ![p] = "append"]
    /\ loc' = [loc EXCEPT ![p].mutated = TRUE]
    /\ UNCHANGED <<fixed, out, issued, nsub>>

(***************************************************************************)
(* append_ticket_and_get_number (lines 340-376)                            *)
(***************************************************************************)
\* values().append and the reading of its acknowledgement (lines 349-366);
\* with ~ack_ok the acknowledgement carries no "updatedRange".
AppendTicket(p, ack_ok) ==
    /\ pc[p] = "append"
    /\ UNCHANGED <<fixed, issued, nsub>>
    /\ \E r \in AppendRowIndex(sheets[loc[p].sheet].rows) :
       LET t == loc[p].sheet
           row_values == TicketRow(loc[p].nome, loc[p].tel)
           updated_range == IF ack_ok THEN UpdatedRange(t, r, Len(row_values)) ELSE <<>>
           m == ParseUpdatedRange(updated_range)
       IN  /\ sheets' = [sheets EXCEPT ![t].rows = InsertRow(@, r, row_values)]
           /\ IF m = <<>>
              THEN Raise(p, [loc[p] EXCEPT !.mutated = TRUE],
                         "RuntimeError: updatedRange")
              ELSE /\ pc' = [pc EXCEPT ![p] = "rewrite"]
                   /\ loc' = [loc EXCEPT ![p].row_idx = StrToInt(m),
                                         ![p].senha = SenhaOfRow(StrToInt(m)),
                                         ![p].mutated = TRUE,
                                         ![p].placed = r]
                   /\ out' = out

\* The registro of lines 568-578.
Registro(l) ==
    [area |-> l.areas[l.i], sheet |-> l.sheet, senha |-> IntToStr(l.senha),
     nome |-> l.nome, telefone |-> l.tel, ts_registro |-> now_str]

\* An exceeded list that also counts a number equal to the limit.
Excedidas_AtLimit(l) ==
    LET limite == LimitOfArea(l.info, l.areas[l.i])
    IN  IF limite # NoInt /\ l.senha >= limite
        THEN Append(l.excedidas, [area |-> l.areas[l.i], limite |-> limite,
                                  senha |-> l.senha])
        ELSE l.excedidas

\* Lines 582-588: the exceeded list after this area.
Excedidas(l) ==
    LET limite == LimitOfArea(l.info, l.areas[l.i])
    IN  IF limite # NoInt /\ l.senha > limite
        THEN Append(l.excedidas, [area |-> l.areas[l.i], limite |-> limite,
                                  senha |-> l.senha])
        ELSE l.excedidas

\* Lines 590-593 and, for submit_ticket, 606-616: what the call gives back, l
\* being its locals after the last area.
Outcome(l) ==
    LET doc == generate_tickets_pdf(l.resultados)
        base == [NoOut EXCEPT !.entry = l.entry, !.areas = l.areas,
                              !.mutated = l.mutated, !.registered = l.resultados]
    IN  IF l.excedidas = <<>> /\ doc.error
        THEN Raised(l, "ValueError: telefone")
        ELSE IF l.entry = "submit_ticket"
        THEN IF l.resultados = <<>> THEN Raised(l, "ValueError: senha")
             ELSE IF l.excedidas # <<>> THEN Raised(l, QuotaError)
             ELSE [base EXCEPT !.kind = "ok",
                               !.senha = StrToInt(l.resultados[1].senha),
                               !.has_pdf = TRUE, !.pdf = doc.pages]
        ELSE [base EXCEPT !.kind = "ok", !.resultados = l.resultados,
                          !.has_pdf = (l.excedidas = <<>>),
                          !.pdf = IF l.excedidas = <<>> THEN doc.pages ELSE <<>>,
                          !.excedidas = l.excedidas]

\* values().update of A{row_idx} (lines 369-374), then the rest of the loop body
\* and, after the last area, the end of the call.
Rewrite(p) ==
    /\ pc[p] = "rewrite"
    /\ UNCHANGED <<fixed, nsub>>
    /\ LET l == loc[p]
           resultados == Append(l.resultados, Registro(l))
           excedidas == Excedidas(l)
       IN  /\ sheets' = [sheets EXCEPT ![l.sheet].rows =
                             UpdateRow(@, NumberCellRow(l.row_idx), <<IntToStr(l.senha)>>)]
           /\ issued' = [issued EXCEPT ![l.sheet] = Append(@, l.senha)]
           /\ IF l.i < Len(l.areas)
              THEN /\ pc' = [pc EXCEPT ![p] = "meta"]
                   /\ loc' = [loc EXCEPT ![p] =
                         [l EXCEPT !.i = l.i + 1,
                                   !.sheet = SheetOfArea(l.info, l.areas[l.i + 1]),
                                   !.row_idx = 0, !.senha = 0, !.placed = 0,
                                   !.resultados = resultados,
                                   !.excedidas = excedidas]]
                   /\ out' = out
              ELSE /\ pc' = [pc EXCEPT ![p] = "done"]
                   /\ loc' = [loc EXCEPT ![p] = NoLoc]
                   /\ out' = [out EXCEPT ![p] =
                         Outcome([l EXCEPT !.resultados = resultados,
                                           !.excedidas = excedidas])]

\* A call to the store fails (HttpError); nothing catches it.
StoreError(p) ==
    /\ pc[p] \in {"meta", "addSheet", "row1", "header", "append", "rewrite"}
    /\ Raise(p, loc[p], "HttpError")
    /\ UNCHANGED <<fixed, sheets, issued, nsub>>

\* The caller has its answer and may submit again.
Return(p) ==
    /\ pc[p] = "done"
    /\ pc' = [pc EXCEPT ![p] = "idle"]
    /\ out' = [out EXCEPT ![p] = NoOut]
    /\ UNCHANGED <<fixed, sheets, loc, issued, nsub>>

Requests == SeqsUpTo(RequestAreas, MaxAreas)

Next ==
    \E p \in Procs :
        \/ \E entry \in {"submit_tickets", "submit_ticket"}, areas \in Requests,
              nome \in NameSamples, telefone \in PhoneSamples, read_ok \in BOOLEAN :
                Submit(p, entry, areas, nome, telefone, read_ok)
        \/ EnsureMeta(p)
        \/ AddSheet(p)
        \/ ReadRow1(p)
        \/ WriteHeader(p)
        \/ \E ack_ok \in BOOLEAN : AppendTicket(p, ack_ok)
        \/ Rewrite(p)
        \/ StoreError(p)
        \/ Return(p)

Spec == Init /\ [][Next]_vars

(***************************************************************************)
(* One caller at a time and a store that never fails: the sequential,      *)
(* successful submissions of a session.                                    *)
(***************************************************************************)
Quiet(p) == \A q \in Procs \ {p} : pc[q] \in {"idle", "done"}

SeqNext ==
    \E p \in Procs :
        \/ \E entry \in {"submit_tickets", "submit_ticket"}, areas \in Requests,
              nome \in NameSamples, telefone \in PhoneSamples :
                Quiet(p) /\ Submit(p, entry, areas, nome, telefone, TRUE)
        \/ Quiet(p) /\ EnsureMeta(p)
        \/ Quiet(p) /\ AddSheet(p)
        \/ Quiet(p) /\ ReadRow1(p)
        \/ Quiet(p) /\ WriteHeader(p)
        \/ Quiet(p) /\ AppendTicket(p, TRUE)
        \/ Quiet(p) /\ Rewrite(p)
        \/ Quiet(p) /\ Return(p)

SpecSeq == Init /\ [][SeqNext]_vars

(***************************************************************************)
(* The spreadsheet is shared: somebody else may clear an area sheet (all   *)
(* its values, the header too).  Only the clears that fall between a       *)
(* submission's ensure_area_sheet and its append are modelled, with one    *)
(* caller at a time.                                                       *)
(***************************************************************************)
ExternalClear(t) ==
    /\ \E p \in Procs : pc[p] = "append" /\ loc[p].sheet = t
    /\ sheets[t].rows # <<>>
    /\ sheets' = [sheets EXCEPT ![t].rows = <<>>]
    /\ UNCHANGED <<fixed, pc, loc, out, issued, nsub>>

EnvNext == SeqNext \/ \E t \in SheetTitles : ExternalClear(t)

SpecEnv == Init /\ [][EnvNext]_vars


(***************************************************************************)
(* The Area Resolver on its own: read_active_areas applied to one          *)
(* configuration table.                                                    *)
(***************************************************************************)
\* Rows under the header of a table handed to the resolver.
MaxTableRows == 3

\* Header rows: accents, case and blanks around the names, columns in another
\* order, no active column, no area column.
TableHeaders ==
    { << <<"Á", "r", "e", "a">>, <<"A", "t", "i", "v", "a">> >>,
      << <<" ", "A", "R", "E", "A", " ">>, <<"S", "T", "A", "T", "U", "S">> >>,
      << <<"A", "t", "i", "v", "a">>, <<"A", "b", "a">>, <<"S", "e", "t", "o", "r">> >>,
      << <<"M", "e", "s", "a">> >>,
      << <<"N", "o", "m", "e">>, <<"A", "t", "i", "v", "a">> >> }

\* Rows: the three of the worked example, a row that ends before the active
\* column, a blank area, an empty flag, blanks around the cells, cells placed
\* for the header with the area in its third column, an accented "Não", and a
\* row with no cell at all.
TableRows ==
    { << <<"A">>, <<"S", "i", "m">> >>,
      << <<"B">>, <<"N", "a", "o">> >>,
      << <<"C">>, <<"1">> >>,
      << <<"A">> >>,
      << <<" ">>, <<"S", "i", "m">> >>,
      << <<"B">>, <<>> >>,
      << <<" ", "C", " ">>, <<" ", "A", "T", "I", "V", "A", " ">> >>,
      << <<"s">>, <<"M", "1">>, <<"B">> >>,
      << <<"B">>, <<"N", "ã", "o">> >>,
      <<>> }

\* The worked example: A is "Sim", B is "Nao", C is "1".
ExampleTable ==
    << << <<"A", "r", "e", "a">>, <<"A", "t", "i", "v", "a">> >>,
       << <<"A">>, <<"S", "i", "m">> >>,
       << <<"B">>, <<"N", "a", "o">> >>,
       << <<"C">>, <<"1">> >> >>

Tables ==
    {<<>>, ExampleTable} \cup
    { <<h>> \o body : h \in TableHeaders, body \in SeqsUpTo(TableRows, MaxTableRows) }

InitAreas ==
    /\ tabela \in Tables
    /\ resolved = NotResolved
    /\ telefone_txt = <<>>
    /\ formatted = <<>>
    /\ nomes = NomesGood
    /\ creds = TRUE
    /\ sheets = [t \in SheetTitles |-> NoSheet]
    /\ pc = [p \in Procs |-> "idle"]
    /\ loc = [p \in Procs |-> NoLoc]
    /\ out = [p \in Procs |-> NoOut]
    /\ issued = [t \in SheetTitles |-> <<>>]
    /\ nsub = 0

\* One call of read_active_areas on the table.
ResolveAreas ==
    /\ ~resolved.ran
    /\ resolved' = [ran |-> TRUE,
                     error |-> read_active_areas(tabela).error,
                     areas |-> read_active_areas(tabela).areas]
    /\ UNCHANGED <<nomes, creds, sheets, pc, loc, out, issued, nsub, tabela,
                   telefone_txt, formatted>>

NextAreas == ResolveAreas

SpecAreas == InitAreas /\ [][NextAreas]_vars


(***************************************************************************)
(* Submissions to a spreadsheet whose sheet A may already have a header of *)
(* its own: ensure_area_sheet in front of sheets it did not create.        *)
(***************************************************************************)
\* A sheet whose row 1 was written by somebody else.
CustomHeader == << <<"N">>, <<"N", "o", "m", "e">> >>

CustomHeaderSheet == [exists |-> TRUE, rows |-> <<CustomHeader>>]

\* A sheet whose row 1 has its first cell empty and a value after it.
PartialHeader == << <<>>, <<"N", "o", "m", "e">> >>

PartialHeaderSheet == [exists |-> TRUE, rows |-> <<PartialHeader>>]

InitEnsure ==
    /\ nomes = NomesGood
    /\ creds = TRUE
    /\ \E a \in {BlankSheet, CustomHeaderSheet, PartialHeaderSheet} :
          sheets = [t \in SheetTitles |-> IF t = AreaA THEN a ELSE NoSheet]
    /\ pc = [p \in Procs |-> "idle"]
    /\ loc = [p \in Procs |-> NoLoc]
    /\ out = [p \in Procs |-> NoOut]
    /\ issued = [t \in SheetTitles |-> <<>>]
    /\ nsub = 0
    /\ tabela = <<>>
    /\ resolved = NotResolved
    /\ telefone_txt = <<>>
    /\ formatted = <<>>

SpecEnsure == InitEnsure /\ [][Next]_vars


(***************************************************************************)
(* The phone normaliser on its own: format_phone_number applied, more than *)
(* once, to one text.                                                      *)
(***************************************************************************)
\* Digits in a phone text of the model, and calls made on one text.
MaxPhoneDigits == 14

MaxCalls == 2

\* Digit runs: one that starts with the area code 92, one that starts with 55.
PhoneDigits ==
    { <<"9", "2", "9", "8", "1", "2", "3", "1", "2", "3", "4", "5", "6", "7", "8", "9">>,
      <<"5", "5", "9", "8", "1", "2", "3", "1", "2", "3", "4", "5", "6", "7", "8", "9">> }

\* What is written before and after the digits.
PhonePrefixes == { <<>>, <<"+", "5", "5", " ">>, <<" ", "(">>, <<"t", "e", "l", ":", " ">> }

PhoneSuffixes == { <<>>, <<" ">> }

PhoneInputs ==
    { <<"+", "5", "5", " ", "(", "9", "2", ")", " ", "9", "8", "1", "2", "3", "-", "1", "2", "3", "4">>, <<"(", "1", "1", ")", " ", "9", "8", "7", "6", "5", "-", "4", "3", "2", "1">>, <<" ", " ", " ">> } \cup
    { pre \o SubSeq(d, 1, n) \o post :
        pre \in PhonePrefixes, d \in PhoneDigits, n \in 0..MaxPhoneDigits,
        post \in PhoneSuffixes }

InitPhone ==
    /\ telefone_txt \in PhoneInputs
    /\ formatted = <<>>
    /\ tabela = <<>>
    /\ resolved = NotResolved
    /\ nomes = NomesGood
    /\ creds = TRUE
    /\ sheets = [t \in SheetTitles |-> NoSheet]
    /\ pc = [p \in Procs |-> "idle"]
    /\ loc = [p \in Procs |-> NoLoc]
    /\ out = [p \in Procs |-> NoOut]
    /\ issued = [t \in SheetTitles |-> <<>>]
    /\ nsub = 0

\* One call of format_phone_number on the text.
FormatPhone ==
    /\ Len(formatted) < MaxCalls
    /\ formatted' = Append(formatted, format_phone_number(telefone_txt))
    /\ UNCHANGED <<nomes, creds, sheets, pc, loc, out, issued, nsub, tabela,
                   resolved, telefone_txt>>

NextPhone == FormatPhone

SpecPhone == InitPhone /\ [][NextPhone]_vars


(***************************************************************************)
(* Properties                                                              *)
(***************************************************************************)
\* The leading cell (column A) of row r of sheet t.
NumberCell(t, r) == sheets[t].rows[r][1]

DataRows(t) == 2..Len(sheets[t].rows)

\* C1: from a sheet that holds only its header, the k-th of the sequential,
\* successful submissions to an area is given ticket number k: the numbers
\* returned for a sheet are 1, 2, 3, ... in order, and the number a submission
\* has just been given is one more than the count of those returned before.
C1_SequentialNumbers ==
    \A t \in SheetTitles :
        /\ \A k \in 1..Len(issued[t]) : issued[t][k] = k
        /\ \A p \in Procs :
              pc[p] = "rewrite" /\ loc[p].sheet = t
                  => loc[p].senha = Len(issued[t]) + 1

C1_Witness == Len(issued[AreaA]) >= 3

\* C2: whenever the store acknowledges the append at row r, the number returned
\* is r - 1 and the cell to rewrite is the leading cell of row r.
C2_NumberIsRowMinusOne ==
    \A p \in Procs :
        pc[p] = "rewrite"
            => /\ loc[p].senha = loc[p].placed - 1
               /\ NumberCellRow(loc[p].row_idx) = loc[p].placed

\* C3 as claimed: no registration row is ever in the store without its number.
C3_NoRowWithoutNumber ==
    \A t \in SheetTitles : \A r \in DataRows(t) : NumberCell(t, r) # <<>>

\* C3 as amended: a registration row is persisted with an empty leading cell
\* and numbered afterwards, so every registration row holds either nothing or
\* its own row position minus one, and every registration a finished call has
\* made and reported holds its number in the store.
C3_NumberedOrPending ==
    /\ \A t \in SheetTitles : \A r \in DataRows(t) :
          NumberCell(t, r) \in {<<>>, IntToStr(r - 1)}
    /\ \A p \in Procs :
          out[p].kind = "ok"
              => \A k \in 1..Len(out[p].registered) :
                    LET reg == out[p].registered[k]
                    IN  /\ StrToInt(reg.senha) + 1 \in DataRows(reg.sheet)
                        /\ NumberCell(reg.sheet, StrToInt(reg.senha) + 1) = reg.senha

\* A row left without a number by a submission that failed after its append.
C3_Witness ==
    /\ \A p \in Procs : pc[p] # "rewrite"
    /\ \E p \in Procs : out[p].error = "HttpError" /\ out[p].mutated
    /\ \E t \in SheetTitles : \E r \in DataRows(t) :
          /\ NumberCell(t, r) = <<>>
          /\ \E r2 \in DataRows(t) : NumberCell(t, r2) # <<>>

\* C4: with a store whose append places the row and reports its position in
\* one step, however the steps of concurrent submissions interleave, no number
\* is given twice in an area, a number not yet written is not one already
\* returned nor one another submission holds, the cell a submission is about to
\* rewrite is in the row it appended, and a number sits only in its own row.
C4_NoReuse ==
    /\ \A t \in SheetTitles : \A i, j \in 1..Len(issued[t]) :
          i # j => issued[t][i] # issued[t][j]
    /\ \A p \in Procs :
          pc[p] = "rewrite"
              => /\ NumberCellRow(loc[p].row_idx) = loc[p].placed
                 /\ \A k \in 1..Len(issued[loc[p].sheet]) :
                       issued[loc[p].sheet][k] # loc[p].senha
                 /\ \A q \in Procs \ {p} :
                       pc[q] = "rewrite" /\ loc[q].sheet = loc[p].sheet
                           => loc[q].senha # loc[p].senha
    /\ \A t \in SheetTitles : \A r, r2 \in DataRows(t) :
          r # r2 /\ NumberCell(t, r) # <<>> => NumberCell(t, r) # NumberCell(t, r2)

\* Two submissions between their append and their rewrite in the same sheet.
C4_Witness ==
    \E p, q \in Procs :
        /\ p # q
        /\ pc[p] = "rewrite" /\ pc[q] = "rewrite"
        /\ loc[p].sheet = loc[q].sheet
        /\ issued[loc[p].sheet] # <<>>

\* C5: when a finished submit_tickets call (all its appends succeeded) gave some
\* area a number greater than that area's limit, no document is returned, every
\* requested area's registration is returned and stays in the store with its
\* number, and the exceeded list holds exactly the areas whose number is
\* greater than their limit, in order, each with the limit and the number; a
\* number equal to its limit is not listed.
Limit(area) == LimitOfArea(ActiveAreasOf[nomes].areas, area)

Exceeds(reg) == Limit(reg.area) # NoInt /\ StrToInt(reg.senha) > Limit(reg.area)

RECURSIVE ExceededOf(_)
ExceededOf(regs) ==
    IF regs = <<>> THEN <<>>
    ELSE LET reg == Head(regs)
         IN  (IF Exceeds(reg)
              THEN << [area |-> reg.area, limite |-> Limit(reg.area),
                       senha |-> StrToInt(reg.senha)] >>
              ELSE <<>>) \o ExceededOf(Tail(regs))

Persisted(reg) ==
    LET r == StrToInt(reg.senha) + 1
    IN  /\ r \in DataRows(reg.sheet)
        /\ NumberCell(reg.sheet, r) = reg.senha
        /\ sheets[reg.sheet].rows[r][2] = reg.nome
        /\ sheets[reg.sheet].rows[r][3] = reg.telefone

C5_QuotaWithholdsDocument ==
    \A p \in Procs :
        out[p].kind = "ok" /\ out[p].entry = "submit_tickets"
            => /\ out[p].excedidas = ExceededOf(out[p].resultados)
               /\ out[p].excedidas # <<>> => ~out[p].has_pdf /\ out[p].pdf = <<>>
               /\ Len(out[p].resultados) = Len(out[p].areas)
               /\ \A k \in 1..Len(out[p].resultados) :
                     /\ out[p].resultados[k].area = out[p].areas[k]
                     /\ Persisted(out[p].resultados[k])

\* A batch of two areas whose first number is over its limit and whose second
\* is not, next to a call whose number was equal to the limit.
C5_Witness ==
    \E p, q \in Procs :
        /\ out[p].kind = "ok" /\ out[p].entry = "submit_tickets"
        /\ Len(out[p].resultados) = 2
        /\ out[p].excedidas = << [area |-> AreaA, limite |-> 1, senha |-> 2] >>
        /\ out[p].resultados[2].area = AreaB
        /\ out[q].kind = "ok" /\ out[q].entry = "submit_tickets"
        /\ out[q].resultados # <<>>
        /\ out[q].resultados[1].area = AreaA
        /\ out[q].resultados[1].senha = <<"1">>
        /\ out[q].excedidas = <<>> /\ out[q].has_pdf

\* C6: a Validation or Configuration error is raised only by a call that has
\* changed nothing in the store: no sheet created, no header written, no row
\* appended, the rendering of the document included.
C6_ErrorsBeforeMutation ==
    \A p \in Procs :
        out[p].kind = "error" /\ out[p].error \in ValidationErrors \cup ConfigurationErrors
            => ~out[p].mutated /\ out[p].registered = <<>>

\* A call refused for its phone, next to a call whose document was rendered
\* from the formatted name and phone.
C6_Witness ==
    \E p, q \in Procs :
        /\ out[p].kind = "error" /\ out[p].error = "ValueError: telefone"
        /\ out[q].kind = "ok" /\ out[q].has_pdf /\ out[q].mutated

\* C7: what a call interrupted by a Persistence error gives its caller names
\* the registrations it had made.
C7_OutcomeNamesRegistered ==
    \A p \in Procs :
        out[p].kind = "error" /\ out[p].error \in PersistenceErrors
            => out[p].resultados = out[p].registered

\* C8: no entry point raises a quota violation as an error.
C8_QuotaNeverRaised == \A p \in Procs : out[p].error # QuotaError

\* C9: the areas are processed one at a time in the caller's order: while area
\* i is being processed the registrations of areas 1..i-1 are made, in order,
\* and have their numbers in the store; the registrations returned follow the
\* order of the request; and a document, when there is one, has one page per
\* ticket, page k showing the area and the number of the k-th area.
InOrder(regs, areas) ==
    /\ Len(regs) <= Len(areas)
    /\ \A k \in 1..Len(regs) : regs[k].area = areas[k]

C9_InOrderOnePagePerTicket ==
    \A p \in Procs :
        /\ pc[p] \in {"meta", "addSheet", "row1", "header", "append", "rewrite"}
              => /\ Len(loc[p].resultados) = loc[p].i - 1
                 /\ InOrder(loc[p].resultados, loc[p].areas)
                 /\ \A k \in 1..Len(loc[p].resultados) :
                       Persisted(loc[p].resultados[k])
        /\ out[p].kind = "ok"
              => /\ Len(out[p].registered) = Len(out[p].areas)
                 /\ InOrder(out[p].registered, out[p].areas)
                 /\ out[p].entry = "submit_tickets"
                       => out[p].resultados = out[p].registered
                 /\ out[p].has_pdf
                       => /\ Len(out[p].pdf) = Len(out[p].areas)
                          /\ \A k \in 1..Len(out[p].pdf) :
                                /\ out[p].pdf[k].area = out[p].areas[k]
                                /\ out[p].pdf[k].senha = out[p].registered[k].senha

\* A document of two pages for two different areas.
C9_Witness ==
    \E p \in Procs :
        /\ out[p].kind = "ok" /\ out[p].entry = "submit_tickets" /\ out[p].has_pdf
        /\ Len(out[p].pdf) = 2
        /\ out[p].areas[1] # out[p].areas[2]

\* C10: for a table with an area-name column the resolver returns, in the
\* order of the table, the trimmed names of exactly the rows whose area is not
\* blank and whose active field is one of the affirmative tokens, compared
\* without case, accents or surrounding blanks (a row without the field counts
\* as "Sim"); for the worked example it returns A and C.
HasColumn(header, names) ==
    \E c \in 1..Len(header) : \E n \in names : _normalize(header[c]) = _normalize(n)

ColumnOf(header, names) ==
    LET n == CHOOSE n \in 1..Len(names) :
                 /\ HasColumn(header, {names[n]})
                 /\ \A j \in 1..(n - 1) : ~HasColumn(header, {names[j]})
    IN  CHOOSE c \in 1..Len(header) :
            /\ _normalize(header[c]) = _normalize(names[n])
            /\ \A d \in 1..(c - 1) : _normalize(header[d]) # _normalize(names[n])

CellOf(row, header, names, default) ==
    IF HasColumn(header, Range(names)) /\ ColumnOf(header, names) <= Len(row)
    THEN row[ColumnOf(header, names)] ELSE default

Affirmative(text) ==
    \E tok \in TruthyTokens : LowerText(UnaccentText(Strip(text))) = tok

Listed(table, r) ==
    /\ Strip(CellOf(table[r], table[1], AreaCandidates, <<>>)) # <<>>
    /\ Affirmative(CellOf(table[r], table[1], AtivaCandidates, <<"S", "i", "m">>))

RECURSIVE ListedNames(_, _)
ListedNames(table, r) ==
    IF r > Len(table) THEN <<>>
    ELSE (IF Listed(table, r)
          THEN << Strip(CellOf(table[r], table[1], AreaCandidates, <<>>)) >>
          ELSE <<>>) \o ListedNames(table, r + 1)

C10_ActiveAreasInOrder ==
    resolved.ran /\ tabela # <<>> /\ HasColumn(tabela[1], Range(AreaCandidates))
        => /\ ~resolved.error
           /\ [k \in 1..Len(resolved.areas) |-> resolved.areas[k].area]
                 = ListedNames(tabela, 2)
           /\ tabela = ExampleTable
                 => [k \in 1..Len(resolved.areas) |-> resolved.areas[k].area]
                       = <<AreaA, AreaC>>

\* The worked example resolved.
C10_Witness ==
    /\ resolved.ran
    /\ tabela = ExampleTable
    /\ Len(resolved.areas) = 2

\* C11: in the Area Resolver a value that is absent is not an error and gives
\* the default: every row with a non-blank area whose active flag is absent
\* (no active column, a row that ends before it, or a blank cell) is returned
\* as active, and an area whose quota cell is absent has no limit.
FlagAbsent(table, r) ==
    \/ ~HasColumn(table[1], Range(AtivaCandidates))
    \/ ColumnOf(table[1], AtivaCandidates) > Len(table[r])
    \/ Strip(table[r][ColumnOf(table[1], AtivaCandidates)]) = <<>>

C11_AbsentFlagIsActive ==
    resolved.ran /\ tabela # <<>> /\ HasColumn(tabela[1], Range(AreaCandidates))
        => /\ ~resolved.error
           /\ \A r \in 2..Len(tabela) :
                 /\ Strip(CellOf(tabela[r], tabela[1], AreaCandidates, <<>>)) # <<>>
                 /\ FlagAbsent(tabela, r)
                 => \E k \in 1..Len(resolved.areas) :
                       resolved.areas[k].area
                           = Strip(CellOf(tabela[r], tabela[1], AreaCandidates, <<>>))
           /\ \A k \in 1..Len(resolved.areas) :
                 ~HasColumn(tabela[1], Range(MaxCandidates))
                     => resolved.areas[k].max_senhas = NoInt

\* C15: a sheet is created, and a registration made, only for a requested area
\* that is in the active set read from "Nomes" during the call.
IsActiveArea(area) == MapHas(ActiveAreasOf[nomes].areas, area)

C15_OnlyActiveAreasMutate ==
    /\ \A p \in Procs :
          /\ \A k \in 1..Len(out[p].registered) : IsActiveArea(out[p].registered[k].area)
          /\ \A k \in 1..Len(loc[p].resultados) : IsActiveArea(loc[p].resultados[k].area)
          /\ loc[p].mutated /\ pc[p] \in {"header", "append", "rewrite"}
                => IsActiveArea(loc[p].areas[loc[p].i])
    /\ \A t \in SheetTitles \ {AreaA} :
          sheets[t].exists
              => \E k \in 1..Len(ActiveAreasOf[nomes].areas) :
                    ActiveAreasOf[nomes].areas[k].sheet = t

\* C13: the step that follows the append either has a row position read from
\* the acknowledgement, which is the row the store wrote, or fails; when the
\* acknowledgement has no position the call fails with the Persistence error
\* of line 362, the sheet has gained exactly the one appended row, whose leading
\* cell stays empty (no rewrite, no second append), no number is returned, and
\* the submission ends with the registrations of the areas before this one.
OneRowAppended(t) ==
    /\ Len(sheets'[t].rows) = Len(sheets[t].rows) + 1
    /\ \A r \in 1..Len(sheets[t].rows) : sheets'[t].rows[r] = sheets[t].rows[r]
    /\ sheets'[t].rows[Len(sheets'[t].rows)][1] = <<>>
    /\ \A u \in SheetTitles \ {t} : sheets'[u] = sheets[u]

AfterAppend(p) ==
    pc[p] = "append" /\ pc'[p] # "append"
        => \/ /\ pc'[p] = "rewrite"
              /\ loc'[p].row_idx = loc'[p].placed
              /\ OneRowAppended(loc[p].sheet)
           \/ /\ pc'[p] = "done"
              /\ out'[p].kind = "error" /\ out'[p].error = "HttpError"
              /\ sheets' = sheets
           \/ /\ pc'[p] = "done"
              /\ out'[p].kind = "error"
              /\ out'[p].error = "RuntimeError: updatedRange"
              /\ out'[p].error \in PersistenceErrors
              /\ OneRowAppended(loc[p].sheet)
              /\ issued' = issued
              /\ out'[p].senha = 0 /\ out'[p].resultados = <<>> /\ ~out'[p].has_pdf
              /\ out'[p].registered = loc[p].resultados
              /\ Len(out'[p].registered) = loc[p].i - 1

C13_NoPositionNoNumber == [][\A p \in Procs : AfterAppend(p)]_vars

\* A batch stopped at its second area by an acknowledgement without position:
\* the first area's registration is made, the second's row has no number.
C13_Witness ==
    \E p \in Procs :
        /\ out[p].error = "RuntimeError: updatedRange"
        /\ Len(out[p].areas) = 2
        /\ Len(out[p].registered) = 1
        /\ \E t \in SheetTitles :
              /\ Len(sheets[t].rows) >= 2
              /\ NumberCell(t, Len(sheets[t].rows)) = <<>>

\* C14: a populated row 1 is never changed; row 1 changes only by the header
\* write of a submission, on a row 1 that is blank, and becomes the fixed header
\* of 8 fields; a submission is about to write the header only on a sheet that
\* exists and whose row 1 is blank or is that header already; and once
\* ensure_area_sheet has returned row 1 is not blank, so the append lands on
\* row 2 or below.
Row1Populated(rows) == rows # <<>> /\ ~RowBlank(rows[1])

Row1Kept(t) ==
    /\ Row1Populated(sheets[t].rows) => sheets'[t].rows[1] = sheets[t].rows[1]
    /\ sheets'[t].rows # <<>> /\ ~Row1Populated(sheets[t].rows)
          => \/ RowBlank(sheets'[t].rows[1])
             \/ /\ sheets'[t].rows[1] = HEADERS
                /\ Len(HEADERS) = 8
                /\ \E p \in Procs :
                      pc[p] = "header" /\ pc'[p] = "append" /\ loc[p].sheet = t

HeaderEnsured ==
    \A p \in Procs :
        /\ pc[p] = "header"
              => /\ sheets[loc[p].sheet].exists
                 /\ \/ Row1Blank(sheets[loc[p].sheet].rows)
                    \/ sheets[loc[p].sheet].rows[1] = HEADERS
        /\ pc[p] = "append" => Row1Populated(sheets[loc[p].sheet].rows)
        /\ pc[p] = "rewrite"
              => /\ loc[p].placed >= 2
                 /\ Row1Populated(sheets[loc[p].sheet].rows)

C14_PopulatedHeaderKept == []HeaderEnsured /\ [][\A t \in SheetTitles : Row1Kept(t)]_vars

\* C12: with d the digits of the text, less a leading 55 when there are more
\* than 11 of them: when d has 11 digits every call of format_phone_number
\* gives the same text "(92) " + d[3..7] + "-" + d[8..11], of the shape
\* (NN) NNNNN-NNNN; when it has not (an empty text included) every call fails
\* with the Validation error.
IsDecimal(c) == c \in {"0", "1", "2", "3", "4", "5", "6", "7", "8", "9"}

NationalDigits(text) ==
    LET d0 == SelectSeq(text, IsDecimal)
    IN  IF Len(d0) > 11 /\ d0[1] = "5" /\ d0[2] = "5"
        THEN SubSeq(d0, 3, Len(d0)) ELSE d0

PhoneShape(text) ==
    /\ Len(text) = 15
    /\ text[1] = "(" /\ text[4] = ")" /\ text[5] = " " /\ text[11] = "-"
    /\ \A i \in {2, 3, 6, 7, 8, 9, 10, 12, 13, 14, 15} : IsDecimal(text[i])

C12_PhoneFormat ==
    \A k \in 1..Len(formatted) :
        LET d == NationalDigits(telefone_txt)
        IN  /\ formatted[k] = formatted[1]
            /\ IF Len(d) = 11
               THEN /\ formatted[k] = <<"(", "9", "2", ")", " ">> \o SubSeq(d, 3, 7)
                                          \o <<"-">> \o SubSeq(d, 8, 11)
                    /\ PhoneShape(formatted[k])
               ELSE formatted[k] = PhoneError

\* A text with the country prefix and 13 digits, formatted twice.
C12_Witness ==
    /\ Len(formatted) = 2
    /\ Len(SelectSeq(telefone_txt, IsDecimal)) = 13
    /\ formatted[2] = <<"(", "9", "2", ")", " ", "9", "8", "1", "2", "3", "-", "1", "2", "3", "4">>

====
